---- MODULE Spec2Model ----
(***************************************************************************)
(* Model of src/src/Lab_2_4_LR2.py: the LinearRegressor class (fit,        *)
(* fit_multiple, fit_gradient_descent, predict), evaluate_regression and   *)
(* one_hot_encode.                                                         *)
(*                                                                         *)
(* Numbers are exact rationals <<n, d>> (d > 0, lowest terms): the         *)
(* rounding of IEEE doubles is not modelled, the special values that the   *)
(* code can produce by dividing by zero (nan, inf) are.                    *)
(***************************************************************************)
EXTENDS Integers, Sequences, FiniteSets, TLC

(***************************************************************************)
(* Bounds of the model.                                                    *)
(***************************************************************************)
MaxRows == 2
MaxIterations == 2
MaxSamples == 3
MaxColumns == 3

(***************************************************************************)
(* Rational arithmetic.                                                    *)
(***************************************************************************)
Abs(i) == IF i < 0 THEN -i ELSE i

RECURSIVE Gcd(_, _)
Gcd(a, b) == IF b = 0 THEN a ELSE Gcd(b, a % b)

Q(n, d) ==
    LET g == Gcd(Abs(n), Abs(d))
        s == IF d < 0 THEN -1 ELSE 1
    IN  <<(s * n) \div g, (s * d) \div g>>

QInt(i) == <<i, 1>>
QZero == <<0, 1>>
QOne == <<1, 1>>
QAdd(a, b) ==
    LET g == Gcd(a[2], b[2])
    IN  Q(a[1] * (b[2] \div g) + b[1] * (a[2] \div g), (a[2] \div g) * b[2])
QNeg(a) == <<-a[1], a[2]>>
QSub(a, b) == QAdd(a, QNeg(b))
QMul(a, b) ==
    LET g1 == Gcd(Abs(a[1]), b[2])
        g2 == Gcd(Abs(b[1]), a[2])
        h1 == IF g1 = 0 THEN 1 ELSE g1
        h2 == IF g2 = 0 THEN 1 ELSE g2
    IN  Q((a[1] \div h1) * (b[1] \div h2), (a[2] \div h2) * (b[2] \div h1))
QDiv(a, b) == QMul(a, Q(b[2], b[1]))
QAbs(a) == <<Abs(a[1]), a[2]>>

(***************************************************************************)
(* Vectors are sequences of rationals, matrices sequences of rows.         *)
(***************************************************************************)
RECURSIVE QSum(_)
QSum(v) == IF v = <<>> THEN QZero ELSE QAdd(v[1], QSum(Tail(v)))

Dot(u, v) == QSum([i \in 1..Len(u) |-> QMul(u[i], v[i])])

NRows(M) == Len(M)
NCols(M) == IF M = <<>> THEN 0 ELSE Len(M[1])

Transpose(M) == [j \in 1..NCols(M) |-> [i \in 1..NRows(M) |-> M[i][j]]]

MatMul(A, B) ==
    [i \in 1..NRows(A) |-> [j \in 1..NCols(B) |->
        QSum([k \in 1..NCols(A) |-> QMul(A[i][k], B[k][j])])]]

MatVec(A, v) == [i \in 1..NRows(A) |-> Dot(A[i], v)]

Drop(s, k) == [i \in 1..(Len(s) - 1) |-> IF i < k THEN s[i] ELSE s[i + 1]]

Minor(M, r, c) == [i \in 1..(Len(M) - 1) |-> Drop(Drop(M, r)[i], c)]

RECURSIVE Det(_)
Det(M) ==
    IF Len(M) = 0 THEN QOne
    ELSE QSum([j \in 1..Len(M) |->
            QMul(IF j % 2 = 1 THEN M[1][j] ELSE QNeg(M[1][j]),
                 Det(Minor(M, 1, j)))])

Inv(M) ==
    LET d == Det(M)
    IN  [i \in 1..Len(M) |-> [j \in 1..Len(M) |->
            QDiv(IF (i + j) % 2 = 0 THEN Det(Minor(M, j, i))
                                    ELSE QNeg(Det(Minor(M, j, i))), d)]]

(***************************************************************************)
(* Inputs of the calls.  X is a flat sequence (np.ndim(X) = 1, v holds the *)
(* sequence as its only row) or a matrix (np.ndim(X) = 2, v holds the      *)
(* rows); its cells and those of y are small integers.                     *)
(***************************************************************************)
XVals == {0, 1}
YVals == {0, 1, 2}

SeqsOf(S, n) == [1..n -> S]

FlatXs == UNION {{[dim |-> 1, v |-> <<s>>] : s \in SeqsOf(XVals, n)} : n \in 1..MaxRows}
OneColumnXs ==
    UNION {{[dim |-> 2, v |-> [i \in 1..n |-> <<s[i]>>]] : s \in SeqsOf(XVals, n)}
           : n \in 1..MaxRows}
\* some inputs of three rows: two features, and three points
ThreeRowXs ==
    {[dim |-> 2, v |-> <<<<0, 0>>, <<1, 0>>, <<0, 1>>>>],
     [dim |-> 2, v |-> <<<<1, 1>>, <<1, 1>>, <<0, 1>>>>],
     [dim |-> 1, v |-> <<<<0, 1, 2>>>>]}
ThreeRowYs == {<<1, 0, 2>>, <<2, 1, 0>>, <<0, 1, 2>>, <<1, 1, 1>>}
Xs == FlatXs \cup OneColumnXs \cup ThreeRowXs
Ys == UNION {SeqsOf(YVals, n) : n \in 1..MaxRows} \cup ThreeRowYs
Rows(X) == IF X.dim = 1 THEN Len(X.v[1]) ELSE Len(X.v)
\* the targets passed with X: those of X's length, a single one, one too many
YsFor(X, ys) == {y \in ys : Len(y) = Rows(X)} \cup {<<1>>, [i \in 1..(Rows(X) + 1) |-> 1]}

\* the inputs of the calls made one after the other on one regressor
SomeXs ==
    {[dim |-> 1, v |-> <<<<0, 1>>>>],
     [dim |-> 1, v |-> <<<<1, 1>>>>],
     [dim |-> 2, v |-> <<<<0, 0>>, <<1, 0>>, <<0, 1>>>>]}
SomeYs == {<<0, 1>>, <<1, 1>>, <<2, 0>>, <<1, 0, 2>>}

\* the defaults of fit's learning_rate and iterations
DefaultLearningRate == <<1, 100>>
DefaultIterations == 1000

Methods == {"least_squares", "gradient_descent", "lasso"}
LearningRates == {<<1, 2>>}
IterationCounts == 0..MaxIterations
\* np.random.rand() draws from [0, 1)
RandDraws == {QZero, <<1, 2>>}

QVec(s) == [i \in 1..Len(s) |-> QInt(s[i])]

(***************************************************************************)
(* State: the two fields of the LinearRegressor, the arrays they refer to, *)
(* and the frame of the call in progress.                                  *)
(***************************************************************************)
VARIABLES
    intercept,      \* self.intercept: None or <<value>>
    coefficients,   \* self.coefficients: None or <<reference into arrays>>
    arrays,         \* the ndarray objects alive, by reference
    pc,             \* "idle", "gd_loop" or "returned"
    args,           \* arguments of the call in progress
    pre,            \* the fields when the call in progress was entered
    drawn,          \* what the call in progress got from np.random and np.linalg.inv
    Xb,             \* X_with_bias of the fit in progress
    epoch,          \* loop counter of fit_gradient_descent
    loss_history,
    w_history,      \* references into arrays
    b_history,
    result          \* what the call gave its caller: a value or an exception

modelVars == <<intercept, coefficients, arrays>>
gdVars == <<Xb, epoch, loss_history, w_history, b_history>>
vars == <<intercept, coefficients, arrays, pc, args, pre, drawn, Xb, epoch,
          loss_history, w_history, b_history, result>>

None == <<>>
NoArgs == [op |-> "none"]
NoDraws == [of |-> "none"]
NoResult == [status |-> "none"]
Raised(e) == [status |-> "raised", error |-> e]
Returned(v) == [status |-> "returned", value |-> v]

\* the value of self.coefficients, None or <<vector>>
CoefficientsValue(c, arr) == IF c = None THEN None ELSE <<arr[c[1]]>>
Fields == [intercept |-> intercept,
           coefficients |-> CoefficientsValue(coefficients, arrays)]

\* __init__
Init ==
    /\ intercept = None
    /\ coefficients = None
    /\ arrays = <<>>
    /\ pc = "idle"
    /\ args = NoArgs
    /\ pre = None
    /\ drawn = NoDraws
    /\ Xb = <<>>
    /\ epoch = 0
    /\ loss_history = <<>>
    /\ w_history = <<>>
    /\ b_history = <<>>
    /\ result = NoResult

\* fit, lines 41-42: X.reshape(-1, 1) of a flat X
Flat(X) == X.v[1]
Reshape(X) == IF X.dim = 1 THEN [i \in 1..Len(Flat(X)) |-> <<Flat(X)[i]>>] ELSE X.v

\* the column of ones put after the features instead of before them
WithBiasLast(M) == [i \in 1..Len(M) |-> QVec(M[i]) \o <<QOne>>]

\* fit, line 45: np.hstack((np.ones((X.shape[0], 1)), X))
WithBias(M) == [i \in 1..Len(M) |-> <<QOne>> \o QVec(M[i])]

FitArgs(X, y, method, learning_rate, iterations) ==
    [op |-> "fit", X |-> X, y |-> y, method |-> method,
     learning_rate |-> learning_rate, iterations |-> iterations]

\* the fields reset before the method is looked at
FitInvalidMethodReset(X, y, method, learning_rate, iterations) ==
    /\ pc = "idle"
    /\ method \notin {"least_squares", "gradient_descent"}
    /\ pc' = "returned"
    /\ args' = FitArgs(X, y, method, learning_rate, iterations)
    /\ pre' = <<Fields>>
    /\ drawn' = NoDraws
    /\ result' = Raised("InvalidMethod")
    /\ intercept' = None
    /\ coefficients' = None
    /\ arrays' = <<>>
    /\ UNCHANGED gdVars

\* fit, lines 37-40
FitInvalidMethod(X, y, method, learning_rate, iterations) ==
    /\ pc = "idle"
    /\ method \notin {"least_squares", "gradient_descent"}
    /\ pc' = "returned"
    /\ args' = FitArgs(X, y, method, learning_rate, iterations)
    /\ pre' = <<Fields>>
    /\ drawn' = NoDraws
    /\ result' = Raised("InvalidMethod")
    /\ UNCHANGED <<modelVars, gdVars>>

\* np.linalg.inv of a singular matrix: LinAlgError when the factorisation
\* meets an exactly zero pivot, else a matrix of unrelated finite values
GarbageInverses(c) == {[i \in 1..c |-> [j \in 1..c |-> QInt(g)]] : g \in {-1, 1}}
InvOutcomes(M) ==
    IF Det(M) = QZero
    THEN {[raised |-> TRUE]} \cup {[raised |-> FALSE, inv |-> G] : G \in GarbageInverses(Len(M))}
    ELSE {[raised |-> FALSE, inv |-> Inv(M)]}

\* fit_multiple, lines 70-75: what the call does given the outcome of inv
FitMultiple(X, y, io) ==
    IF io.raised THEN [error |-> "SingularMatrix"]
    ELSE IF Len(y) # NRows(X) THEN [error |-> "DimensionMismatch"]
    ELSE LET w == MatVec(MatMul(io.inv, Transpose(X)), QVec(y))
         IN  [error |-> "none", intercept |-> w[1], coefficients |-> Tail(w)]

\* the fields reset before the solution is computed
FitLeastSquaresReset(X, y, learning_rate, iterations) ==
    /\ pc = "idle"
    /\ pc' = "returned"
    /\ args' = FitArgs(X, y, "least_squares", learning_rate, iterations)
    /\ pre' = <<Fields>>
    /\ LET X_with_bias == WithBias(Reshape(X))
       IN  \E io \in InvOutcomes(MatMul(Transpose(X_with_bias), X_with_bias)) :
             LET r == FitMultiple(X_with_bias, y, io)
             IN  /\ drawn' = [of |-> "inv", io |-> io]
                 /\ IF r.error # "none"
                    THEN /\ result' = Raised(r.error)
                         /\ intercept' = None
                         /\ coefficients' = None
                         /\ arrays' = <<>>
                    ELSE /\ result' = Returned(None)
                         /\ intercept' = <<r.intercept>>
                         /\ arrays' = <<r.coefficients>>
                         /\ coefficients' = <<1>>
    /\ UNCHANGED gdVars

\* fit with method = "least_squares", lines 41-48 and fit_multiple
FitLeastSquares(X, y, learning_rate, iterations) ==
    /\ pc = "idle"
    /\ pc' = "returned"
    /\ args' = FitArgs(X, y, "least_squares", learning_rate, iterations)
    /\ pre' = <<Fields>>
    /\ LET X_with_bias == WithBias(Reshape(X))
       IN  \E io \in InvOutcomes(MatMul(Transpose(X_with_bias), X_with_bias)) :
             LET r == FitMultiple(X_with_bias, y, io)
             IN  /\ drawn' = [of |-> "inv", io |-> io]
                 /\ IF r.error # "none"
                    THEN /\ result' = Raised(r.error)
                         /\ UNCHANGED modelVars
                    ELSE /\ result' = Returned(None)
                         /\ intercept' = <<r.intercept>>
                         /\ arrays' = <<r.coefficients>>
                         /\ coefficients' = <<1>>
    /\ UNCHANGED gdVars

\* a warm start: the fields of an earlier fit kept when there are some
InitialParametersWarm(old, wdraws, bdraw) ==
    IF old.intercept # None /\ old.coefficients # None
    THEN [intercept |-> old.intercept[1],
          coefficients |-> [i \in 1..Len(wdraws) |->
              IF i <= Len(old.coefficients[1]) THEN old.coefficients[1][i]
              ELSE QMul(wdraws[i], <<1, 100>>)]]
    ELSE [intercept |-> QMul(bdraw, <<1, 100>>),
          coefficients |-> [i \in 1..Len(wdraws) |-> QMul(wdraws[i], <<1, 100>>)]]

\* fit_gradient_descent, lines 92-93: the fields before the loop, from the
\* draws of np.random.rand (one per non-bias column, then one)
InitialParameters(old, wdraws, bdraw) ==
    [intercept |-> QMul(bdraw, <<1, 100>>),
     coefficients |-> [i \in 1..Len(wdraws) |-> QMul(wdraws[i], <<1, 100>>)]]

\* fit with method = "gradient_descent", lines 41-50, and
\* fit_gradient_descent, lines 91-97
FitGradientDescentStart(X, y, learning_rate, iterations) ==
    /\ pc = "idle"
    /\ pc' = "gd_loop"
    /\ args' = FitArgs(X, y, "gradient_descent", learning_rate, iterations)
    /\ pre' = <<Fields>>
    /\ Xb' = WithBias(Reshape(X))
    /\ \E wdraws \in SeqsOf(RandDraws, NCols(Xb') - 1), bdraw \in RandDraws :
         LET p == InitialParameters(Fields, wdraws, bdraw)
         IN  /\ drawn' = [of |-> "rand", w |-> wdraws, b |-> bdraw]
             /\ arrays' = <<p.coefficients>>
             /\ coefficients' = <<1>>
             /\ intercept' = <<p.intercept>>
    /\ epoch' = 0
    /\ loss_history' = <<>>
    /\ w_history' = <<>>
    /\ b_history' = <<>>
    /\ result' = NoResult

\* line 104, predictions - y under numpy's broadcasting: <<>> when the shapes
\* (n,) and (k,) are incompatible
Broadcastable(n, k) == n = k \/ n = 1 \/ k = 1
ErrorVector(predictions, y) ==
    LET n == Len(predictions)
        k == Len(y)
        len == IF n >= k THEN n ELSE k
    IN  [i \in 1..len |->
            QSub(predictions[IF n = 1 THEN 1 ELSE i], QInt(y[IF k = 1 THEN 1 ELSE i]))]

\* lines 101-115 of one iteration on parameters <<b, w>>: the exception it
\* raises, or the updated parameters and the loss
GradientStep(X, y, learning_rate, b, w) ==
    LET m == Len(y)
        predictions == MatVec(X, <<b>> \o w)
    IN  IF ~Broadcastable(Len(predictions), m) THEN [error |-> "DimensionMismatch"]
        ELSE LET error == ErrorVector(predictions, y)
             IN  IF Len(error) # NRows(X) THEN [error |-> "DimensionMismatch"]
                 ELSE LET gradient == [j \in 1..NCols(X) |->
                                          QMul(<<1, m>>, Dot(Transpose(X)[j], error))]
                      IN  [error |-> "none",
                           intercept |-> QSub(b, QMul(learning_rate, gradient[1])),
                           coefficients |-> [j \in 1..Len(w) |->
                               QSub(w[j], QMul(learning_rate, gradient[j + 1]))],
                           mse |-> QMul(<<1, m>>, QSum([i \in 1..Len(error) |->
                                                          QMul(error[i], error[i])]))]

\* no copy: the history is given the live array itself
CopyArrayAlias(arr, ref) == arr

\* line 117, self.coefficients.copy(): the array store after the copy; the
\* copy is the last array of it
CopyArray(arr, ref) == Append(arr, arr[ref])

\* lines 99-118: one iteration of the loop
GradientDescentStep ==
    /\ pc = "gd_loop"
    /\ epoch < args.iterations
    /\ LET ref == coefficients[1]
           r == GradientStep(Xb, args.y, args.learning_rate, intercept[1], arrays[ref])
       IN  IF r.error # "none"
           THEN /\ pc' = "returned"
                /\ result' = Raised(r.error)
                /\ UNCHANGED <<modelVars, gdVars>>
           ELSE LET updated == [arrays EXCEPT ![ref] = r.coefficients]
                IN  /\ intercept' = <<r.intercept>>
                    /\ arrays' = CopyArray(updated, ref)
                    /\ loss_history' = Append(loss_history, r.mse)
                    /\ w_history' = Append(w_history, Len(arrays'))
                    /\ b_history' = Append(b_history, r.intercept)
                    /\ epoch' = epoch + 1
                    /\ UNCHANGED <<coefficients, Xb, pc, result>>
    /\ UNCHANGED <<args, pre, drawn>>

\* the loop left as soon as the loss is zero
GradientDescentReturnEarly ==
    /\ pc = "gd_loop"
    /\ \/ epoch >= args.iterations
       \/ epoch >= 1 /\ loss_history[epoch] = QZero
    /\ pc' = "returned"
    /\ result' = Returned(<<loss_history, b_history,
                            [i \in 1..Len(w_history) |-> arrays[w_history[i]]]>>)
    /\ UNCHANGED <<modelVars, gdVars, args, pre, drawn>>

\* line 125: return loss_history, b_history, w_history
GradientDescentReturn ==
    /\ pc = "gd_loop"
    /\ epoch >= args.iterations
    /\ pc' = "returned"
    /\ result' = Returned(<<loss_history, b_history,
                            [i \in 1..Len(w_history) |-> arrays[w_history[i]]]>>)
    /\ UNCHANGED <<modelVars, gdVars, args, pre, drawn>>

\* predict, lines 146-152
PredictValue(b, w, X) ==
    IF X.dim = 1
    THEN LET x == Flat(X)
              len == IF Len(w) >= Len(x) THEN Len(w) ELSE Len(x)
         IN  IF ~Broadcastable(Len(w), Len(x)) THEN Raised("DimensionMismatch")
             ELSE Returned([i \in 1..len |->
                      QAdd(b, QMul(w[IF Len(w) = 1 THEN 1 ELSE i],
                                   QInt(x[IF Len(x) = 1 THEN 1 ELSE i])))])
    ELSE IF NCols(X.v) # Len(w) THEN Raised("DimensionMismatch")
         ELSE Returned([i \in 1..NRows(X.v) |-> QAdd(b, Dot(QVec(X.v[i]), w))])

\* no check of the fields
PredictUnchecked(f, X) ==
    IF f.coefficients = None \/ f.intercept = None
    THEN Returned(<<>>)
    ELSE PredictValue(f.intercept[1], f.coefficients[1], X)

PredictResult(f, X) ==
    IF f.coefficients = None \/ f.intercept = None
    THEN Raised("NotFitted")
    ELSE PredictValue(f.intercept[1], f.coefficients[1], X)

Predict(X) ==
    /\ pc = "idle"
    /\ pc' = "returned"
    /\ args' = [op |-> "predict", X |-> X]
    /\ pre' = <<Fields>>
    /\ drawn' = NoDraws
    /\ result' = PredictResult(Fields, X)
    /\ UNCHANGED <<modelVars, gdVars>>

\* the caller takes the value or the exception; the frame of the call and
\* the arrays nothing refers to any more are gone
Return ==
    /\ pc = "returned"
    /\ pc' = "idle"
    /\ args' = NoArgs
    /\ pre' = None
    /\ drawn' = NoDraws
    /\ result' = NoResult
    /\ arrays' = IF coefficients = None THEN <<>> ELSE <<arrays[coefficients[1]]>>
    /\ Xb' = <<>>
    /\ epoch' = 0
    /\ loss_history' = <<>>
    /\ w_history' = <<>>
    /\ b_history' = <<>>
    /\ UNCHANGED <<intercept, coefficients>>

\* the calls with their arguments drawn from the given sets
Calls(xs, ys) ==
    \/ \E X \in xs, method \in Methods : \E y \in YsFor(X, ys) :
          FitInvalidMethod(X, y, method, DefaultLearningRate, DefaultIterations)
    \/ \E X \in xs : \E y \in YsFor(X, ys) :
          FitLeastSquares(X, y, DefaultLearningRate, DefaultIterations)
    \/ \E X \in xs, lr \in LearningRates, it \in IterationCounts : \E y \in YsFor(X, ys) :
          FitGradientDescentStart(X, y, lr, it)
    \/ \E X \in xs : Predict(X)

\* any number of calls, one after the other, on one regressor
Next ==
    \/ Calls(SomeXs, SomeYs)
    \/ GradientDescentStep
    \/ GradientDescentReturn
    \/ Return

Spec == Init /\ [][Next]_vars

\* one call on a regressor just constructed
NextOneCall ==
    \/ Calls(Xs, Ys)
    \/ GradientDescentStep
    \/ GradientDescentReturn

SpecOneCall == Init /\ [][NextOneCall]_vars

(***************************************************************************)
(* evaluate_regression.  A float is a rational, the square root of one     *)
(* that has no rational root, nan, or an infinity.                         *)
(***************************************************************************)
Finite(q) == [kind |-> "finite", q |-> q]
NaN == [kind |-> "nan", q |-> QZero]
Infinity == [kind |-> "inf", q |-> QZero]
MinusInfinity == [kind |-> "-inf", q |-> QZero]

\* a / b on numpy floats: a division by zero gives nan or an infinity
FloatDiv(a, b) ==
    IF b # QZero THEN Finite(QDiv(a, b))
    ELSE IF a = QZero THEN NaN
    ELSE IF a[1] > 0 THEN Infinity ELSE MinusInfinity

\* 1 - f
OneMinus(f) ==
    CASE f.kind = "finite" -> Finite(QSub(QOne, f.q))
      [] f.kind = "nan" -> NaN
      [] f.kind = "inf" -> MinusInfinity
      [] f.kind = "-inf" -> Infinity

IsSquare(n) == \E r \in 0..n : r * r = n
Root(n) == CHOOSE r \in 0..n : r * r = n
\* np.sqrt of a rational that is not negative
Sqrt(q) ==
    IF IsSquare(q[1]) /\ IsSquare(q[2]) THEN Finite(<<Root(q[1]), Root(q[2])>>)
    ELSE [kind |-> "sqrt", q |-> q]

Mean(v) == QDiv(QSum(v), QInt(Len(v)))
SumOfSquares(v) == QSum([i \in 1..Len(v) |-> QMul(v[i], v[i])])

\* the ratio left as it is, not taken from 1
RSquaredRatio(rss, tss) == FloatDiv(rss, tss)

\* line 172
RSquared(rss, tss) == OneMinus(FloatDiv(rss, tss))

\* evaluate_regression, lines 170-181, for y_true and y_pred of one length
evaluate_regression(y_true, y_pred) ==
    LET n == Len(y_true)
        t == QVec(y_true)
        diff == [i \in 1..n |-> QSub(t[i], QInt(y_pred[i]))]
        rss == SumOfSquares(diff)
        tss == SumOfSquares([i \in 1..n |-> QSub(t[i], Mean(t))])
        mse == QMul(<<1, n>>, rss)
    IN  [R2 |-> RSquared(rss, tss),
         RMSE |-> Sqrt(mse),
         MAE |-> Finite(QMul(<<1, n>>, QSum([i \in 1..n |-> QAbs(diff[i])])))]

EvalVals == {0, 1, 2}
EvaluateArgs(n) ==
    {[op |-> "evaluate_regression", y_true |-> t, y_pred |-> q] :
        t \in SeqsOf(EvalVals, n), q \in SeqsOf(EvalVals, n)}

\* a call of evaluate_regression about to be made
InitEvaluate ==
    /\ intercept = None
    /\ coefficients = None
    /\ arrays = <<>>
    /\ pc = "called"
    /\ \E n \in 1..MaxSamples : args \in EvaluateArgs(n)
    /\ pre = None
    /\ drawn = NoDraws
    /\ Xb = <<>>
    /\ epoch = 0
    /\ loss_history = <<>>
    /\ w_history = <<>>
    /\ b_history = <<>>
    /\ result = NoResult

EvaluateRegression ==
    /\ pc = "called"
    /\ args.op = "evaluate_regression"
    /\ pc' = "returned"
    /\ result' = Returned(evaluate_regression(args.y_true, args.y_pred))
    /\ UNCHANGED <<modelVars, gdVars, args, pre, drawn>>

NextEvaluate == EvaluateRegression

SpecEvaluate == InitEvaluate /\ [][NextEvaluate]_vars

(***************************************************************************)
(* one_hot_encode.  A cell is an integer or a text; an array has a dtype:  *)
(* "int" (all cells integers), "str" (a numpy text dtype, all cells texts) *)
(* or "object" (cells of either kind).  The rows of an array are           *)
(* sequences of cells of one length.                                       *)
(***************************************************************************)
I(n) == [t |-> "int", i |-> n, s |-> ""]
S(x) == [t |-> "str", i |-> 0, s |-> x]

\* the order of the texts the model has
StrOrder == <<"0", "1", "2", "3", "a", "b", "c">>
StrRank(x) == CHOOSE k \in 1..Len(StrOrder) : StrOrder[k] = x
\* str(n) of a small integer
Str(n) == StrOrder[n + 1]

\* a < b between two cells of one kind
CellLess(a, b) == IF a.t = "int" THEN a.i < b.i ELSE StrRank(a.s) < StrRank(b.s)

Width(rows) == IF rows = <<>> THEN 0 ELSE Len(rows[1])
ColumnAt(rows, j) == [r \in 1..Len(rows) |-> rows[r][j]]
SubSeqOrEmpty(row, a, b) == IF a > b THEN <<>> ELSE SubSeq(row, a, b)

\* np.unique of cells of one kind: the distinct values, ascending
RECURSIVE SortCells(_)
SortCells(cells) ==
    IF cells = {} THEN <<>>
    ELSE LET least == CHOOSE c \in cells : \A d \in cells \ {c} : CellLess(c, d)
         IN  <<least>> \o SortCells(cells \ {least})
Unique(column) == SortCells({column[r] : r \in 1..Len(column)})
Comparable(column) == \A q, r \in 1..Len(column) : column[q].t = column[r].t

\* sorted(categorical_indices, reverse=True)
RECURSIVE SortedDescending(_)
SortedDescending(list) ==
    IF list = <<>> THEN <<>>
    ELSE LET k == CHOOSE k \in 1..Len(list) : \A l \in 1..Len(list) : list[l] <= list[k]
         IN  <<list[k]>> \o SortedDescending(Drop(list, k))

\* the cells of an array of integers put into an array of dtype dt by np.hstack
Promote(cell, dt) == IF dt = "str" THEN S(Str(cell.i)) ELSE cell

\* lines 200-215 for one index, on X_transformed = [dtype, rows]: the array
\* after it, or the exception raised
EncodeColumn(A, index, drop_first) ==
    LET c == Width(A.rows)
    IN  IF index >= c \/ index < -c THEN [error |-> "IndexError"]
        ELSE LET pos == IF index < 0 THEN index + c ELSE index
                 categorical_column == ColumnAt(A.rows, pos + 1)
             IN  IF ~Comparable(categorical_column) THEN [error |-> "TypeError"]
                 ELSE LET all_values == Unique(categorical_column)
                          unique_values == IF drop_first THEN Tail(all_values)
                                                         ELSE all_values
                          one_hot == [r \in 1..Len(A.rows) |->
                              [l \in 1..Len(unique_values) |->
                                  IF categorical_column[r] = unique_values[l]
                                  THEN I(1) ELSE I(0)]]
                          deleted == [r \in 1..Len(A.rows) |-> Drop(A.rows[r], pos + 1)]
                          \* the slices [:index] and [index:] of the c - 1 columns left
                          cut == IF index >= 0 THEN (IF index > c - 1 THEN c - 1 ELSE index)
                                 ELSE (IF c - 1 + index < 0 THEN 0 ELSE c - 1 + index)
                      IN  [error |-> "none",
                           dtype |-> A.dtype,
                           rows |-> [r \in 1..Len(A.rows) |->
                               SubSeqOrEmpty(deleted[r], 1, cut)
                               \o [l \in 1..Len(unique_values) |->
                                      Promote(one_hot[r][l], A.dtype)]
                               \o SubSeqOrEmpty(deleted[r], cut + 1, c - 1)]]

\* the loop of lines 198-215 over the indices left
RECURSIVE EncodeAll(_, _, _)
EncodeAll(A, indices, drop_first) ==
    IF indices = <<>> THEN A
    ELSE LET B == EncodeColumn(A, Head(indices), drop_first)
         IN  IF B.error # "none" THEN B
             ELSE EncodeAll(B, Tail(indices), drop_first)

\* one_hot_encode, lines 197-216
one_hot_encode(X, categorical_indices, drop_first) ==
    LET r == EncodeAll([error |-> "none", dtype |-> X.dtype, rows |-> X.rows],
                       SortedDescending(categorical_indices), drop_first)
    IN  IF r.error # "none" THEN Raised(r.error)
        ELSE Returned([dtype |-> r.dtype, rows |-> r.rows])

\* the columns the arrays of the model are made of, as rows of three cells
IntColumns == {<<I(1), I(2), I(3)>>, <<I(2), I(1), I(2)>>}
StrColumns == {<<S("a"), S("b"), S("a")>>, <<S("a"), S("a"), S("a")>>,
               <<S("1"), S("2"), S("3")>>}
ObjectColumns == {<<I(1), I(2), I(3)>>, <<S("a"), S("b"), S("a")>>,
                  <<S("c"), S("a"), S("b")>>, <<I(1), S("a"), I(1)>>}
ArraysOf(dt, columns) ==
    UNION {{[dtype |-> dt, rows |-> [r \in 1..3 |-> [j \in 1..c |-> cols[j][r]]]] :
               cols \in SeqsOf(columns, c)} : c \in 1..MaxColumns}
EncodeXs == ArraysOf("int", IntColumns) \cup ArraysOf("str", StrColumns)
                \cup ArraysOf("object", ObjectColumns)
\* one or two indices, in and around the range of the columns of X
IndexLists(X) ==
    LET range == (-(Width(X.rows) + 1))..Width(X.rows)
    IN  SeqsOf(range, 1) \cup SeqsOf(range, 2)
EncodeArgs(X) ==
    {[op |-> "one_hot_encode", X |-> X, categorical_indices |-> list,
      drop_first |-> d] : list \in IndexLists(X), d \in BOOLEAN}

\* a call of one_hot_encode about to be made
InitEncode ==
    /\ intercept = None
    /\ coefficients = None
    /\ arrays = <<>>
    /\ pc = "called"
    /\ \E X \in EncodeXs : args \in EncodeArgs(X)
    /\ pre = None
    /\ drawn = NoDraws
    /\ Xb = <<>>
    /\ epoch = 0
    /\ loss_history = <<>>
    /\ w_history = <<>>
    /\ b_history = <<>>
    /\ result = NoResult

OneHotEncode ==
    /\ pc = "called"
    /\ args.op = "one_hot_encode"
    /\ pc' = "returned"
    /\ result' = one_hot_encode(args.X, args.categorical_indices, args.drop_first)
    /\ UNCHANGED <<modelVars, gdVars, args, pre, drawn>>

NextEncode == OneHotEncode

SpecEncode == InitEncode /\ [][NextEncode]_vars

(***************************************************************************)
(* Properties of LinearRegressor.                                          *)
(***************************************************************************)
FitReturned == pc = "returned" /\ args.op = "fit" /\ result.status = "returned"
FitRaised == pc = "returned" /\ args.op = "fit" /\ result.status = "raised"
Unset(f) == f.intercept = None \/ f.coefficients = None

C2_InvalidMethodLeavesFields ==
    (pc = "returned" /\ args.op = "fit"
        /\ args.method \notin {"least_squares", "gradient_descent"})
        => result = Raised("InvalidMethod") /\ Fields = pre[1]

C2_Witness ==
    /\ pc = "returned" /\ args.op = "fit" /\ args.method = "lasso"
    /\ ~Unset(pre[1])
    /\ result.status = "raised"

\* C3 as stated: whenever a fit call raises, the fields are those from before
\* the call.
C3_FailedFitLeavesFields == FitRaised => Fields = pre[1]

\* the fields fit_gradient_descent can draw for a matrix of c columns
IsInitialParameters(f, c) ==
    /\ ~Unset(f)
    /\ \E bdraw \in RandDraws : f.intercept[1] = QMul(bdraw, <<1, 100>>)
    /\ Len(f.coefficients[1]) = c - 1
    /\ \A i \in 1..(c - 1) :
         \E wdraw \in RandDraws : f.coefficients[1][i] = QMul(wdraw, <<1, 100>>)

\* C3 amended: a fit that raises for its method or on the least_squares path
\* leaves the fields as before the call; a fit that raises on the
\* gradient_descent path raises in the first iteration and leaves the fields at
\* the random values drawn by that call.
C3_FailedFitFields ==
    FitRaised =>
        IF args.method = "gradient_descent"
        THEN epoch = 0 /\ IsInitialParameters(Fields, NCols(Xb))
        ELSE Fields = pre[1]

C3_Witness ==
    /\ FitRaised /\ args.method = "least_squares"
    /\ result.error = "DimensionMismatch"
    /\ ~Unset(pre[1])

FreshFields == [intercept |-> None, coefficients |-> None]

\* the parameters after k iterations from p
RECURSIVE GradientDescentFrom(_, _, _, _, _)
GradientDescentFrom(X, y, learning_rate, p, k) ==
    IF k = 0 THEN p
    ELSE LET r == GradientStep(X, y, learning_rate, p.intercept, p.coefficients)
         IN  GradientDescentFrom(X, y, learning_rate,
                 [intercept |-> r.intercept, coefficients |-> r.coefficients], k - 1)

ParametersAfter(a, d, k) ==
    GradientDescentFrom(WithBias(Reshape(a.X)), a.y, a.learning_rate,
        InitialParameters(FreshFields, d.w, d.b), k)

\* the fields of a regressor just constructed after a fit with arguments a
\* that returns, given the same draws
FreshFit(a, d) ==
    IF a.method = "least_squares"
    THEN LET r == FitMultiple(WithBias(Reshape(a.X)), a.y, d.io)
         IN  [intercept |-> <<r.intercept>>, coefficients |-> <<r.coefficients>>]
    ELSE LET p == ParametersAfter(a, d, a.iterations)
         IN  [intercept |-> <<p.intercept>>, coefficients |-> <<p.coefficients>>]

\* C4: after a fit that returns, the fields are those of a regressor just
\* constructed after the same fit alone, whatever the fields were before.
C4_RefitOverwrites == FitReturned => Fields = FreshFit(args, drawn)

C4_Witness ==
    /\ FitReturned
    /\ ~Unset(pre[1])
    /\ Len(pre[1].coefficients[1]) # Len(Fields.coefficients[1])
    /\ pre[1].intercept # Fields.intercept

\* y = a + b * x over the rows of a one-feature X
LineParams == {Q(n, 2) : n \in -8..8}
OnLine(x, y, a, b) ==
    /\ Len(x) = Len(y)
    /\ \A i \in 1..Len(x) : QInt(y[i]) = QAdd(a, QMul(b, x[i]))
OneFeature(X) == X.dim = 1 \/ Len(X.v[1]) = 1
Column(X) == [i \in 1..Rows(X) |-> QInt(IF X.dim = 1 THEN X.v[1][i] ELSE X.v[i][1])]
TwoDistinct(x) == \E i, j \in 1..Len(x) : x[i] # x[j]

\* C8: a least_squares fit of one-feature data y = a + b * x with two distinct
\* x returns and sets intercept to a and the coefficients to <<b>>.
C8_LeastSquaresRecoversLine ==
    (pc = "returned" /\ args.op = "fit" /\ args.method = "least_squares"
        /\ OneFeature(args.X))
        => \A a, b \in LineParams :
             (OnLine(Column(args.X), args.y, a, b)
                 /\ TwoDistinct(Column(args.X)))
                 => /\ result.status = "returned"
                    /\ Fields = [intercept |-> <<a>>, coefficients |-> <<<<b>>>>]

C8_Witness ==
    /\ pc = "returned" /\ args.op = "fit" /\ args.method = "least_squares"
    /\ Rows(args.X) = 3 /\ OneFeature(args.X)
    /\ OnLine(Column(args.X), args.y, QInt(2), QInt(-1))
    /\ result.status = "returned"

QLess(a, b) == QSub(a, b)[1] < 0

HistoryEntry(k) == [intercept |-> b_history[k], coefficients |-> arrays[w_history[k]]]
ParametersBefore(k) ==
    IF k = 1 THEN InitialParameters(FreshFields, drawn.w, drawn.b) ELSE HistoryEntry(k - 1)

\* C10: the k-th entries of the coefficient and intercept histories are the
\* parameters right after the k-th update, in the loop and in what the call
\* returns, and the last ones are the fields when the call returns.
C10_HistoryEntriesKept ==
    (pc \in {"gd_loop", "returned"} /\ args.op = "fit"
        /\ args.method = "gradient_descent") =>
        /\ \A k \in 1..Len(w_history) :
             LET p == ParametersBefore(k)
                 r == GradientStep(Xb, args.y, args.learning_rate,
                                   p.intercept, p.coefficients)
             IN  HistoryEntry(k) = [intercept |-> r.intercept,
                                    coefficients |-> r.coefficients]
        /\ (result.status = "returned" /\ args.iterations >= 1) =>
             /\ result.value[3][args.iterations] = Fields.coefficients[1]
             /\ result.value[2][args.iterations] = Fields.intercept[1]
             /\ \A k \in 1..args.iterations :
                  /\ result.value[3][k] = HistoryEntry(k).coefficients
                  /\ result.value[2][k] = HistoryEntry(k).intercept

C10_Witness ==
    /\ FitReturned /\ args.method = "gradient_descent"
    /\ args.iterations >= 2
    /\ result.value[3][1] # Fields.coefficients[1]
    /\ result.value[3][1] # result.value[3][2]

(***************************************************************************)
(* Properties of evaluate_regression.                                      *)
(***************************************************************************)
EvaluateReturned == pc = "returned" /\ args.op = "evaluate_regression"
Constant(v) == \A i, j \in 1..Len(v) : v[i] = v[j]

\* C6 as stated: with y_pred equal to y_true, R2 is 1 and RMSE and MAE are 0.
C6_PerfectPrediction ==
    (EvaluateReturned /\ args.y_pred = args.y_true)
        => result.value = [R2 |-> Finite(QOne), RMSE |-> Finite(QZero),
                           MAE |-> Finite(QZero)]

\* C6 amended: with y_pred equal to y_true, RMSE and MAE are 0, and R2 is 1
\* when y_true has two different values and nan when it has not (one value,
\* or all values the same).
C6_PerfectPredictionOfVaryingTruth ==
    (EvaluateReturned /\ args.y_pred = args.y_true)
        => /\ result.value.RMSE = Finite(QZero)
           /\ result.value.MAE = Finite(QZero)
           /\ result.value.R2 = IF Constant(args.y_true) THEN NaN ELSE Finite(QOne)

C6_Witness ==
    /\ EvaluateReturned /\ args.y_pred = args.y_true
    /\ ~Constant(args.y_true)
    /\ result.value.R2 = Finite(QOne)

(***************************************************************************)
(* Properties of one_hot_encode.                                           *)
(***************************************************************************)
EncodeDone == pc = "returned" /\ args.op = "one_hot_encode"
ValidIndex(X, index) == 0 <= index /\ index < Width(X.rows)
ValidIndices(X, list) ==
    /\ \A k \in 1..Len(list) : ValidIndex(X, list[k])
    /\ \A k, l \in 1..Len(list) : k # l => list[k] # list[l]

\* the labels of a column in ascending order, integers before texts
LabelLess(a, b) ==
    IF a.t = b.t THEN CellLess(a, b) ELSE a.t = "int"
RECURSIVE Ascending(_)
Ascending(cells) ==
    IF cells = {} THEN <<>>
    ELSE LET least == CHOOSE c \in cells : \A d \in cells \ {c} : LabelLess(c, d)
         IN  <<least>> \o Ascending(cells \ {least})
Labels(rows, j, drop_first) ==
    LET all == Ascending({rows[r][j] : r \in 1..Len(rows)})
    IN  IF drop_first THEN Tail(all) ELSE all

\* row r of the encoding as C5 describes it, the columns taken left to right
RECURSIVE ExpectedRow(_, _, _, _, _)
ExpectedRow(rows, r, j, categorical, drop_first) ==
    IF j > Width(rows) THEN <<>>
    ELSE (IF (j - 1) \in categorical
          THEN LET labels == Labels(rows, j, drop_first)
               IN  [l \in 1..Len(labels) |-> IF rows[r][j] = labels[l] THEN I(1) ELSE I(0)]
          ELSE <<rows[r][j]>>)
         \o ExpectedRow(rows, r, j + 1, categorical, drop_first)
Expected(X, list, drop_first) ==
    [r \in 1..Len(X.rows) |->
        ExpectedRow(X.rows, r, 1, {list[k] : k \in 1..Len(list)}, drop_first)]

\* C5: for valid indices, no two the same, one_hot_encode returns the matrix
\* in which each categorical column is replaced in place by one 0/1 indicator
\* column per label, ascending (less the smallest with drop_first), the other
\* columns kept in their order.
C5_OneHotLayout ==
    (EncodeDone /\ ValidIndices(args.X, args.categorical_indices))
        => /\ result.status = "returned"
           /\ result.value.rows = Expected(args.X, args.categorical_indices,
                                           args.drop_first)

\* what does hold: the same for the arrays of integers, and for those of
\* objects whose categorical columns hold labels of one kind
OneHotLayoutOfComparable ==
    (EncodeDone /\ ValidIndices(args.X, args.categorical_indices)
        /\ args.X.dtype # "str"
        /\ \A k \in 1..Len(args.categorical_indices) :
             Comparable(ColumnAt(args.X.rows, args.categorical_indices[k] + 1)))
        => /\ result.status = "returned"
           /\ result.value.rows = Expected(args.X, args.categorical_indices,
                                           args.drop_first)

\* C7: with an index below 0 or not below the number of columns of X,
\* one_hot_encode raises and returns no matrix.
C7_InvalidIndexRaises ==
    (EncodeDone /\ \E k \in 1..Len(args.categorical_indices) :
                      ~ValidIndex(args.X, args.categorical_indices[k]))
        => result.status = "raised"

====
